---- MODULE Spec2Model ----
(***************************************************************************)
(* Model of kly777/bread, src/entrypoints/content/highlight/               *)
(* highlightNodeV3.ts: the segment collector (getTextNodes), the match     *)
(* engine (findMatches, isInSelection), the splice engine                  *)
(* (highlightMatches, removeHighlights) and the controllers                *)
(* (highlightNode, HighlightFeature, initHighlight).                       *)
(*                                                                         *)
(* Strings are sequences of one-character strings; offsets are 0-based as  *)
(* in the source.  The DOM is a heap: a sequence of node records indexed   *)
(* by node identity.                                                       *)
(***************************************************************************)
EXTENDS Integers, Sequences, FiniteSets, TLC

VARIABLES
    dom,              \* the document: heap of nodes, node 1 is document.body
    dom0,             \* the document as it was when the current pass began
    sel,              \* window.getSelection(): NoSel or a range
    texts,            \* TextNodeEntry[] of the last getTextNodes call
    mergedText,       \* mergedText of the last getTextNodes call
    selectedText,     \* the query: the text searched for
    matches,          \* MatchRange[] of the last findMatches call
    filteredMatches,  \* MatchRange[] handed to highlightMatches
    lastSelectedText, \* module variable of highlightNodeV3.ts (line 98)
    currentHighlight, \* {text, spans} of HighlightFeature / initHighlight
    listening,        \* the mouseup listener is registered
    observing,        \* the MutationObserver is connected
    pending,          \* mutation records are queued for the observer
    thrown,           \* the last handler ended by an uncaught exception
    controller,       \* which controller the page runs, "none" for neither
    pipelineRan,      \* the last handler collected text nodes and spliced
    op                \* the last operation performed

vars == <<dom, dom0, sel, texts, mergedText, selectedText, matches,
          filteredMatches, lastSelectedText, currentHighlight, listening,
          observing, pending, thrown, controller, pipelineRan, op>>

(***************************************************************************)
(* Bounds of the model.                                                    *)
(***************************************************************************)
MaxTextLen == 5      \* longest mergedText drawn for findMatches
MaxQueryLen == 2     \* longest query drawn for findMatches
MaxCollectKids == 2  \* most items under document.body, collector alone
MaxSpliceKids == 3   \* most items under document.body, splice engine alone
MaxMatches == 3      \* longest match list drawn for highlightMatches
MaxPageKids == 2     \* most items under document.body, controllers
MaxNodes == 10       \* heap size from which no further pass is started

(***************************************************************************)
(* Strings.                                                                *)
(***************************************************************************)
Min(S) == CHOOSE x \in S : \A y \in S : x <= y

Max(S) == CHOOSE x \in S : \A y \in S : x >= y

\* s.slice(a, b) / s.substring(a, b) for 0 <= a <= b <= s.length
Slice(s, a, b) == SubSeq(s, a + 1, b)

RECURSIVE Concat(_)
\* strs.join("")
Concat(strs) ==
    IF strs = <<>> THEN <<>> ELSE Head(strs) \o Concat(Tail(strs))

\* String.prototype.toLowerCase on one character.  U+0130 (capital I with
\* dot above, "Idot") lowercases to the two code units U+0069 U+0307.
LowerChar(c) ==
    CASE c = "A" -> <<"a">>
      [] c = "B" -> <<"b">>
      [] c = "Idot" -> <<"i", "cdot">>
      [] OTHER -> <<c>>

\* String.prototype.toLowerCase
toLowerCase(s) == Concat([i \in 1..Len(s) |-> LowerChar(s[i])])

IsSpace(c) == c = " "

\* the character class [a-zA-Z0-9]
IsAlnum(c) ==
    c \in {"a", "b", "c", "d", "e", "f", "g", "h", "i", "j", "A", "B", "0"}

\* String.prototype.trim
trim(s) ==
    LET keep == {i \in 1..Len(s) : ~IsSpace(s[i])}
    IN  IF keep = {} THEN <<>> ELSE SubSeq(s, Min(keep), Max(keep))

\* String.prototype.indexOf(q, from): the least position >= from at which q
\* occurs in s, or -1
indexOf(s, q, from) ==
    LET f == IF from < 0 THEN 0 ELSE IF from > Len(s) THEN Len(s) ELSE from
        at == {i \in f..(Len(s) - Len(q)) : Slice(s, i, i + Len(q)) = q}
    IN  IF at = {} THEN -1 ELSE Min(at)

(***************************************************************************)
(* Match engine: findMatches (lines 207-226).                              *)
(***************************************************************************)
\* a defect in the resume position: resume one character after the start
NextIndexOverlapping(index, st) == index + 1

\* line 222: index += selectedText.length
NextIndex(index, st) == index + Len(st)

RECURSIVE findMatchesLoop(_, _, _, _)
\* lines 217-223: the while loop, from position index with acc collected
findMatchesLoop(mt, st, index, acc) ==
    LET i == indexOf(mt, st, index)
    IN  IF i = -1
        THEN acc
        ELSE findMatchesLoop(mt, st, NextIndex(i, st),
                 Append(acc, [start |-> i, end |-> i + Len(st)]))

\* lines 207-226
findMatches(mt, st) ==
    IF Len(st) = 0 THEN <<>> ELSE findMatchesLoop(mt, st, 0, <<>>)

(***************************************************************************)
(* The DOM.  A document is a sequence of node records; a node is its       *)
(* index.  parent = 0 means detached.  made marks the elements built by    *)
(* createSpanElement (the markers), as opposed to the page's own.          *)
(***************************************************************************)
Body == 1

Text(t, p) ==
    [kind |-> "text", tag |-> "#text", cls |-> "", hidden |-> FALSE,
     text |-> t, kids |-> <<>>, parent |-> p, made |-> FALSE]

Element(tg, cl, hid, ks, p) ==
    [kind |-> "elem", tag |-> tg, cls |-> cl, hidden |-> hid,
     text |-> <<>>, kids |-> ks, parent |-> p, made |-> FALSE]

IsText(d, n) == d[n].kind = "text"

IndexOfChild(ks, n) == CHOOSE i \in 1..Len(ks) : ks[i] = n

WithoutChild(ks, n) == SelectSeq(ks, LAMBDA k : k # n)

\* ks with n put right after position i (i = 0: in front)
InsertedAt(ks, i, n) == SubSeq(ks, 1, i) \o <<n>> \o SubSeq(ks, i + 1, Len(ks))

\* remove n from its parent, if it has one
Detach(d, n) ==
    LET p == d[n].parent
    IN  IF p = 0 THEN d
        ELSE [d EXCEPT ![p].kids = WithoutChild(@, n), ![n].parent = 0]

\* ChildNode.after(n): move n to right after ref; nothing when ref is detached
after(d, ref, n) ==
    LET p == d[ref].parent
        d1 == Detach(d, n)
    IN  IF p = 0 THEN d
        ELSE [d1 EXCEPT
                 ![p].kids = InsertedAt(@, IndexOfChild(@, ref), n),
                 ![n].parent = p]

\* Node.appendChild(c)
appendChild(d, p, c) ==
    LET d1 == Detach(d, c)
    IN  [d1 EXCEPT ![p].kids = Append(@, c), ![c].parent = p]

\* Node.replaceChild(new, old), old being a child of p
replaceChild(d, p, new, old) ==
    LET d1 == Detach(d, new)
    IN  [d1 EXCEPT
            ![p].kids = [i \in 1..Len(@) |-> IF @[i] = old THEN new ELSE @[i]],
            ![new].parent = p,
            ![old].parent = 0]

\* the node a creation call returns: the next free index
NewNode(d) == Len(d) + 1

\* document.createTextNode(t)
createTextNode(d, t) == Append(d, Text(t, 0))

\* a defect in the copy: the clone is made without the node's text
cloneNodeWithoutText(d, n) == Append(d, [d[n] EXCEPT !.parent = 0, !.text = <<>>])

\* Text.cloneNode(true): a detached copy, NewNode(d)
cloneNode(d, n) == Append(d, [d[n] EXCEPT !.parent = 0])

\* Text.splitText(off) for off <= length: n keeps [0, off), the rest goes to
\* the new node NewNode(d), inserted as n's next sibling
splitText(d, n, off) ==
    LET p == d[n].parent
        m == NewNode(d)
        d1 == Append([d EXCEPT ![n].text = Slice(@, 0, off)],
                     Text(Slice(d[n].text, off, Len(d[n].text)), p))
    IN  IF p = 0 THEN d1
        ELSE [d1 EXCEPT ![p].kids = InsertedAt(@, IndexOfChild(@, n), m)]

RECURSIVE docOrder(_, _)
\* n and its descendants in document order
docOrder(d, n) ==
    <<n>> \o Concat([i \in 1..Len(d[n].kids) |-> docOrder(d, d[n].kids[i])])

\* Node.textContent
textContent(d, n) ==
    LET ns == docOrder(d, n)
    IN  Concat([i \in 1..Len(ns) |-> d[ns[i]].text])

\* the text nodes under root in document order: what a TreeWalker with
\* NodeFilter.SHOW_TEXT visits (elements are walked through, not filtered)
TextNodesUnder(d, root) ==
    SelectSeq(Tail(docOrder(d, root)), LAMBDA n : IsText(d, n))

\* document.querySelectorAll("." + cl): a static list in document order
querySelectorAll(d, cl) ==
    SelectSeq(docOrder(d, Body),
              LAMBDA n : d[n].kind = "elem" /\ d[n].cls = cl)

\* the number of characters of the page's text before text node n
CharsBefore(d, n) ==
    LET ns == TextNodesUnder(d, Body)
        k == CHOOSE i \in 1..Len(ns) : ns[i] = n
    IN  Len(Concat([i \in 1..(k - 1) |-> d[ns[i]].text]))

\* for each character of the page's text, in document order, the text node
\* holding it and its offset in that node
CharMap(d) ==
    LET ns == TextNodesUnder(d, Body)
    IN  Concat([i \in 1..Len(ns) |->
                   [j \in 1..Len(d[ns[i]].text) |->
                       [node |-> ns[i], off |-> j - 1]]])

RECURSIVE InsideClass(_, _, _)
\* n lies in an element of class cl
InsideClass(d, n, cl) ==
    LET p == d[n].parent
    IN  IF p = 0 THEN FALSE
        ELSE (d[p].kind = "elem" /\ d[p].cls = cl) \/ InsideClass(d, p, cl)

(***************************************************************************)
(* The selection.  A range has its boundary points in text nodes:          *)
(* (sc, so) the start container and offset, (ec, eo) the end.              *)
(***************************************************************************)
\* the range over characters i..j (1-based, inclusive) of the page's text,
\* cm being CharMap of the page
RangeOfChars(cm, i, j) ==
    [sc |-> cm[i].node, so |-> cm[i].off, ec |-> cm[j].node,
     eo |-> cm[j].off + 1]

\* Selection.toString(): the page's text between the boundary points
RangeText(d, s) ==
    Slice(textContent(d, Body),
          CharsBefore(d, s.sc) + s.so, CharsBefore(d, s.ec) + s.eo)

(***************************************************************************)
(* Segment collector: getTextNodes (lines 39-96).                          *)
(***************************************************************************)
\* lines 9-18
EXCLUDED_TAGS ==
    {"input", "textarea", "select", "button", "script", "style", "noscript",
     "template"}

\* line 44: the default of options.minContentLength
minContentLength == 1

\* lines 48-73: the filter called on text node n, TRUE for FILTER_ACCEPT.
\* FILTER_REJECT and FILTER_SKIP both drop a text node, which has no subtree.
acceptNode(d, n) ==
    LET parent == d[n].parent
    IN  IF parent = 0 THEN TRUE
        ELSE IF d[parent].tag \in EXCLUDED_TAGS THEN FALSE
        ELSE IF d[parent].hidden THEN FALSE
        ELSE IF Len(trim(d[n].text)) < minContentLength THEN FALSE
        ELSE TRUE

\* the nodes walker.nextNode() yields (line 79)
AcceptedNodes(d, root) ==
    SelectSeq(TextNodesUnder(d, root), LAMBDA n : acceptNode(d, n))

RECURSIVE collectEntries(_, _, _)
\* lines 75-88: the entries of the nodes ns, the first at logical offset
collectEntries(d, ns, offset) ==
    IF ns = <<>> THEN <<>>
    ELSE LET node == Head(ns)
             text == d[node].text
         IN  <<[node |-> node, start |-> offset, end |-> offset + Len(text)]>>
             \o collectEntries(d, Tail(ns), offset + Len(text))

\* lines 39-96
getTextNodes(d, root) ==
    LET ts == collectEntries(d, AcceptedNodes(d, root), 0)
    IN  [texts |-> ts,
         mergedText |->
             Concat([i \in 1..Len(ts) |-> toLowerCase(d[ts[i].node].text)])]

(***************************************************************************)
(* Splice engine: highlightMatches (lines 235-319), createSpanElement      *)
(* (lines 330-343), removeHighlights (lines 139-146).                      *)
(***************************************************************************)
RECURSIVE sortByStart(_)
\* line 239: [...matches].sort((a, b) => a.start - b.start), a stable sort
sortByStart(ms) ==
    IF ms = <<>> THEN <<>>
    ELSE LET rest == sortByStart(Tail(ms))
             m == Head(ms)
             k == Cardinality({i \in 1..Len(rest) : rest[i].start < m.start})
         IN  InsertedAt(rest, k, m)

Reverse(q) == [i \in 1..Len(q) |-> q[Len(q) + 1 - i]]

\* lines 330-343: document.createElement("span") with className "highlight"
createSpanElement(d) ==
    Append(d, [Element("span", "highlight", FALSE, <<>>, 0)
                   EXCEPT !.made = TRUE])

RECURSIVE collectNodeMatches(_, _, _, _, _)
\* lines 250-275: the while loop for one entry; cmi is currentMatchIndex
\* (1-based here), contentLen is nodeContent.length, acc is nodeMatches
collectNodeMatches(entry, contentLen, sorted, cmi, acc) ==
    IF cmi > Len(sorted) THEN [nodeMatches |-> acc, cmi |-> cmi]
    ELSE
        LET match == sorted[cmi]
            matchStart == match.start - entry.start
            matchEnd == match.end - entry.start
            local == [start |-> Max({0, matchStart}),
                      end |-> Min({contentLen, matchEnd})]
        IN  IF match.start >= entry.start /\ match.end <= entry.end
            THEN collectNodeMatches(entry, contentLen, sorted, cmi + 1,
                                    Append(acc, local))
            ELSE IF match.start < entry.end /\ match.end > entry.start
            THEN [nodeMatches |-> Append(acc, local), cmi |-> cmi]
            ELSE [nodeMatches |-> acc, cmi |-> cmi]

\* lines 285-307: wrap the slice match of text node node in a new marker.
\* ok = FALSE: splitText threw IndexSizeError (offset beyond the length).
spliceMatch(d, node, match) ==
    LET span == NewNode(d)
        d1 == createSpanElement(d)
        pre == NewNode(d1)
        d2 == splitText(d1, node, match.start)
        highlighted == NewNode(d2)
        d3 == splitText(d2, pre, match.end - match.start)
        clone == NewNode(d3)
        d4 == appendChild(cloneNode(d3, pre), span, clone)
        d5 == IF d4[node].parent = 0 THEN d4
              ELSE replaceChild(d4, d4[node].parent, span, pre)
        d6 == IF d5[highlighted].text # <<>>
              THEN after(d5, span, highlighted)
              ELSE d5
    IN  IF match.start > Len(d[node].text) THEN [d |-> d1, ok |-> FALSE]
        ELSE IF match.end - match.start > Len(d2[pre].text)
                \/ match.end - match.start < 0
        THEN [d |-> d2, ok |-> FALSE]
        ELSE [d |-> d6, ok |-> TRUE]

RECURSIVE spliceNodeMatches(_, _, _)
\* line 284: nodeMatches.reverse().forEach(...), ms already reversed
spliceNodeMatches(d, node, ms) ==
    IF ms = <<>> THEN [d |-> d, ok |-> TRUE]
    ELSE LET r == spliceMatch(d, node, Head(ms))
         IN  IF r.ok THEN spliceNodeMatches(r.d, node, Tail(ms)) ELSE r

RECURSIVE highlightEntries(_, _, _, _)
\* line 244: texts.forEach(...), from entry number k on
highlightEntries(d, ts, sorted, cmi) ==
    IF ts = <<>> THEN [d |-> d, ok |-> TRUE]
    ELSE LET entry == Head(ts)
             c == collectNodeMatches(entry, Len(d[entry.node].text), sorted,
                                     cmi, <<>>)
             r == spliceNodeMatches(d, entry.node, Reverse(c.nodeMatches))
         IN  IF r.ok THEN highlightEntries(r.d, Tail(ts), sorted, c.cmi)
             ELSE r

\* lines 235-319
highlightMatches(d, ts, ms) == highlightEntries(d, ts, sortByStart(ms), 1)

RECURSIVE unwrapAll(_, _)
\* lines 141-145: the forEach over the static list spans
unwrapAll(d, spans) ==
    IF spans = <<>> THEN d
    ELSE LET span == Head(spans)
             text == NewNode(d)
             d1 == createTextNode(d, textContent(d, span))
             d2 == IF d1[span].parent = 0 THEN d1
                   ELSE replaceChild(d1, d1[span].parent, text, span)
         IN  unwrapAll(d2, Tail(spans))

\* lines 139-146
removeHighlights(d) == unwrapAll(d, querySelectorAll(d, "highlight"))

(***************************************************************************)
(* Content trees.  A page is built from a sequence of items under          *)
(* document.body: a bare text leaf (tag "#text"), an element holding one   *)
(* text leaf, or an element holding <b> holding one text leaf (wrap).      *)
(***************************************************************************)
Item(tg, cl, hid, wr, str) ==
    [tag |-> tg, cls |-> cl, hidden |-> hid, wrap |-> wr, s |-> str]

Leaf(str) == Item("#text", "", FALSE, FALSE, str)

Para(str) == Item("p", "", FALSE, FALSE, str)

EmptyDocument == <<Element("body", "", FALSE, <<>>, 0)>>

\* the document d with item it appended to document.body
AddItem(d, it) ==
    LET a == NewNode(d)
    IN  IF it.tag = "#text"
        THEN appendChild(createTextNode(d, it.s), Body, a)
        ELSE IF ~it.wrap
        THEN [Append(Append(d, Element(it.tag, it.cls, it.hidden,
                                       <<a + 1>>, Body)),
                     Text(it.s, a))
                 EXCEPT ![Body].kids = Append(@, a)]
        ELSE [Append(Append(Append(d, Element(it.tag, it.cls, it.hidden,
                                              <<a + 1>>, Body)),
                            Element("b", "", FALSE, <<a + 2>>, a)),
                     Text(it.s, a + 1))
                 EXCEPT ![Body].kids = Append(@, a)]

RECURSIVE BuildFrom(_, _)
BuildFrom(d, items) ==
    IF items = <<>> THEN d ELSE BuildFrom(AddItem(d, Head(items)), Tail(items))

BuildTree(items) == BuildFrom(EmptyDocument, items)

(***************************************************************************)
(* State shared by the specifications below.                               *)
(***************************************************************************)
\* window.getSelection() with rangeCount = 0
NoSel == [sc |-> 0, so |-> 0, ec |-> 0, eo |-> 0]

NoHighlight == [text |-> <<>>, spans |-> <<>>]

ControllersIdle ==
    /\ sel = NoSel
    /\ lastSelectedText = <<>>
    /\ currentHighlight = NoHighlight
    /\ listening = FALSE
    /\ observing = FALSE
    /\ pending = FALSE
    /\ thrown = FALSE
    /\ controller = "none"
    /\ pipelineRan = FALSE

controllerVars ==
    <<sel, lastSelectedText, currentHighlight, listening, observing, pending,
      controller, pipelineRan>>

\* all strings over the characters A of length at most n
Strings(A, n) == UNION {[1..k -> A] : k \in 0..n}

\* all sequences over S of length at most n
SeqsUpTo(S, n) == UNION {[1..k -> S] : k \in 0..n}

(***************************************************************************)
(* SpecFindMatches: findMatches applied to every text and query over       *)
(* {a, b} within the bounds.                                               *)
(***************************************************************************)
InitFindMatches ==
    /\ mergedText \in Strings({"a", "b"}, MaxTextLen)
    /\ selectedText \in Strings({"a", "b"}, MaxQueryLen)
    /\ matches = <<>>
    /\ filteredMatches = <<>>
    /\ texts = <<>>
    /\ dom = EmptyDocument
    /\ dom0 = EmptyDocument
    /\ ControllersIdle
    /\ op = "init"

FindMatchesCall ==
    /\ op = "init"
    /\ matches' = findMatches(mergedText, selectedText)
    /\ op' = "findMatches"
    /\ UNCHANGED <<dom, dom0, texts, mergedText, selectedText,
                   filteredMatches, controllerVars, thrown>>

NextFindMatches == FindMatchesCall

SpecFindMatches == InitFindMatches /\ [][NextFindMatches]_vars

(***************************************************************************)
(* SpecCollect: getTextNodes applied to every page of at most              *)
(* MaxCollectKids items.                                                   *)
(***************************************************************************)
CollectItems ==
    {Leaf(<<"a", "b">>),
     Leaf(<<" ">>),
     Para(<<"A", "b">>),
     Para(<<"Idot", "a">>),
     Item("button", "", FALSE, FALSE, <<"a", "b">>),
     Item("button", "", FALSE, TRUE, <<"a", "b">>),
     Item("p", "", TRUE, FALSE, <<"a", "b">>),
     Item("div", "highlight", FALSE, TRUE, <<"a", "b">>)}

InitCollect ==
    /\ \E items \in SeqsUpTo(CollectItems, MaxCollectKids) :
           dom = BuildTree(items)
    /\ dom0 = dom
    /\ texts = <<>>
    /\ mergedText = <<>>
    /\ selectedText = <<>>
    /\ matches = <<>>
    /\ filteredMatches = <<>>
    /\ ControllersIdle
    /\ op = "init"

GetTextNodesCall ==
    /\ op = "init"
    /\ \E g \in {getTextNodes(dom, Body)} :
           /\ texts' = g.texts
           /\ mergedText' = g.mergedText
    /\ dom0' = dom
    /\ op' = "getTextNodes"
    /\ UNCHANGED <<dom, selectedText, matches, filteredMatches,
                   controllerVars, thrown>>

NextCollect == GetTextNodesCall

SpecCollect == InitCollect /\ [][NextCollect]_vars

(***************************************************************************)
(* SpecSplice: one pass of the splice engine, getTextNodes then            *)
(* highlightMatches then removeHighlights, over every page of at most      *)
(* MaxSpliceKids items and every ascending non-overlapping match list of   *)
(* at most MaxMatches ranges inside the merged text.                       *)
(***************************************************************************)
Letters == <<"a", "b", "c", "d", "e", "f", "g", "h", "i", "j">>

\* item shapes: a kind and a text length; the texts are consecutive letters
SpliceShapes ==
    {[kind |-> "T", len |-> 1], [kind |-> "T", len |-> 2],
     [kind |-> "P", len |-> 2], [kind |-> "H", len |-> 1]}

ShapeItem(sh, str) ==
    CASE sh.kind = "T" -> Leaf(str)
      [] sh.kind = "P" -> Para(str)
      [] sh.kind = "H" -> Item("div", "highlight", FALSE, TRUE, str)

RECURSIVE ShapeItems(_, _)
\* the items of shapes shs, the first text starting at letter number from
ShapeItems(shs, from) ==
    IF shs = <<>> THEN <<>>
    ELSE <<ShapeItem(Head(shs), SubSeq(Letters, from, from + Head(shs).len - 1))>>
         \o ShapeItems(Tail(shs), from + Head(shs).len)

Ranges(n) == {[start |-> a, end |-> b] : a \in 0..(n - 1), b \in 1..n}

RECURSIVE MatchListsFrom(_, _, _)
\* the ascending, pairwise non-overlapping lists of at most k non-empty
\* ranges inside [lo, n)
MatchListsFrom(lo, n, k) ==
    IF k = 0 THEN {<<>>}
    ELSE {<<>>} \cup
         UNION {{<<r>> \o rest : rest \in MatchListsFrom(r.end, n, k - 1)} :
                r \in {x \in Ranges(n) : x.start >= lo /\ x.start < x.end}}

InitSplice ==
    /\ \E shs \in SeqsUpTo(SpliceShapes, MaxSpliceKids) :
           dom = BuildTree(ShapeItems(shs, 1))
    /\ dom0 = dom
    /\ texts = <<>>
    /\ mergedText = <<>>
    /\ selectedText = <<>>
    /\ matches = <<>>
    /\ filteredMatches = <<>>
    /\ ControllersIdle
    /\ op = "init"

HighlightMatchesCall ==
    /\ op = "getTextNodes"
    /\ \E ms \in MatchListsFrom(0, Len(mergedText), MaxMatches) :
           \E r \in {highlightMatches(dom, texts, ms)} :
               /\ filteredMatches' = ms
               /\ dom' = r.d
               /\ thrown' = ~r.ok
    /\ op' = "highlightMatches"
    /\ UNCHANGED <<dom0, texts, mergedText, selectedText, matches,
                   controllerVars>>

RemoveHighlightsCall ==
    /\ op \in {"highlightMatches", "highlightNode"}
    /\ dom' = removeHighlights(dom)
    /\ op' = "removeHighlights"
    /\ UNCHANGED <<dom0, texts, mergedText, selectedText, matches,
                   filteredMatches, controllerVars, thrown>>

NextSplice == GetTextNodesCall \/ HighlightMatchesCall \/ RemoveHighlightsCall

SpecSplice == InitSplice /\ [][NextSplice]_vars

(***************************************************************************)
(* Claims about the match engine (SpecFindMatches).                        *)
(***************************************************************************)
\* q occurs in t at position i, character by character
Occurs(t, q, i) ==
    /\ i >= 0
    /\ i + Len(q) <= Len(t)
    /\ \A j \in 1..Len(q) : t[i + j] = q[j]

\* r is what the greedy leftmost-first scan of t for q yields
GreedyScan(t, q, r) ==
    /\ q = <<>> => r = <<>>
    /\ q # <<>> =>
        /\ \A k \in 1..Len(r) :
              LET lo == IF k = 1 THEN 0 ELSE r[k - 1].end
              IN  /\ r[k].end = r[k].start + Len(q)
                  /\ Slice(t, r[k].start, r[k].end) = q
                  /\ r[k].start >= lo
                  /\ \A i \in lo..(r[k].start - 1) : ~Occurs(t, q, i)
        /\ LET lo == IF r = <<>> THEN 0 ELSE r[Len(r)].end
           IN  \A i \in lo..Len(t) : ~Occurs(t, q, i)

\* C3: findMatches returns exactly the greedy leftmost-first scan: the first
\* range is the leftmost occurrence of the query, each following range is the
\* leftmost occurrence at or after the previous end, every returned slice
\* equals the query, no occurrence is left in a gap, an empty query yields
\* the empty result, and ("aaa", "aa") yields only [0,2].
C3_GreedyLeftmostFirst ==
    op = "findMatches" =>
        /\ GreedyScan(mergedText, selectedText, matches)
        /\ (mergedText = <<"a", "a", "a">> /\ selectedText = <<"a", "a">>)
               => matches = <<[start |-> 0, end |-> 2]>>

C3_Witness ==
    /\ op = "findMatches"
    /\ mergedText = <<"a", "a", "a">>
    /\ selectedText = <<"a", "a">>
    /\ matches = <<[start |-> 0, end |-> 2]>>

\* C4: the ranges findMatches returns are pairwise non-overlapping, strictly
\* ascending by start, and each satisfies 0 <= start < end <= length.
C4_NonOverlapAscendingInBounds ==
    op = "findMatches" =>
        /\ \A i, j \in 1..Len(matches) :
              i # j => \/ matches[i].end <= matches[j].start
                       \/ matches[j].end <= matches[i].start
        /\ \A i \in 1..(Len(matches) - 1) :
              matches[i].start < matches[i + 1].start
        /\ \A i \in 1..Len(matches) :
              /\ 0 <= matches[i].start
              /\ matches[i].start < matches[i].end
              /\ matches[i].end <= Len(mergedText)

C4_Witness ==
    /\ op = "findMatches"
    /\ mergedText = <<"a", "a", "a", "a", "a">>
    /\ selectedText = <<"a", "a">>
    /\ Len(matches) = 2

(***************************************************************************)
(* Claims about the collector (SpecCollect).                               *)
(***************************************************************************)
\* C5: the entries of getTextNodes tile [0, mergedText.length): the first
\* starts at 0, consecutive entries abut, each is as long as its leaf's
\* text, and the last ends at mergedText.length.
C5_PartitionInvariant ==
    op = "getTextNodes" =>
        /\ texts # <<>> => texts[1].start = 0
        /\ \A i \in 1..(Len(texts) - 1) : texts[i].end = texts[i + 1].start
        /\ \A i \in 1..Len(texts) :
              texts[i].end - texts[i].start = Len(dom[texts[i].node].text)
        /\ texts # <<>> => texts[Len(texts)].end = Len(mergedText)
        /\ texts = <<>> => Len(mergedText) = 0

(***************************************************************************)
(* Claims about the splice engine (SpecSplice).                            *)
(***************************************************************************)
\* the markers of d: the elements createSpanElement built, still in the page
Markers(d) == SelectSeq(docOrder(d, Body), LAMBDA n : d[n].made)

\* one record per character of the page's text, in document order: the
\* character and whether its leaf sits in a marker
Flat(d) ==
    LET ns == TextNodesUnder(d, Body)
    IN  Concat([i \in 1..Len(ns) |->
                   [j \in 1..Len(d[ns[i]].text) |->
                       [c |-> d[ns[i]].text[j],
                        marked |-> d[d[ns[i]].parent].made]]])

\* the positions of Flat(d) that sit in a marker
MarkedPositions(d) == {i \in 1..Len(Flat(d)) : Flat(d)[i].marked}

\* the position in Flat(d) of logical position p of the segments ts
FlatPosition(d, ts, p) ==
    LET k == CHOOSE i \in 1..Len(ts) : ts[i].start <= p /\ p < ts[i].end
    IN  CharsBefore(d, ts[k].node) + (p - ts[k].start) + 1

\* the logical positions the ranges ms cover
Covered(ms) ==
    UNION {ms[i].start..(ms[i].end - 1) : i \in 1..Len(ms)}

\* C1: after highlightMatches the logical positions wrapped in a marker are
\* exactly the union of the match ranges: every match is wrapped completely,
\* also one that follows a match spanning a segment boundary, and nothing
\* outside a match is wrapped.
C1_WrappedEqualsMatches ==
    op = "highlightMatches" =>
        MarkedPositions(dom)
            = {FlatPosition(dom0, texts, p) : p \in Covered(filteredMatches)}

\* C2: highlightMatches creates exactly one marker per match range, also for
\* a match spanning segment boundaries; leaves "ab","cd","ef" with the match
\* [1,5) give one marker wrapping "bcde".
C2_OneMarkerPerMatch ==
    op = "highlightMatches" =>
        /\ Len(Markers(dom)) = Len(filteredMatches)
        /\ \A i \in 1..Len(Markers(dom)) :
              \E k \in 1..Len(filteredMatches) :
                  Len(textContent(dom, Markers(dom)[i]))
                      = filteredMatches[k].end - filteredMatches[k].start

RECURSIVE NormLeaves(_, _)
RECURSIVE NormKids(_, _, _, _)
\* the text leaves under element n after merging adjacent text leaves and
\* dropping empty ones, each with its parent, in document order
NormLeaves(d, n) == NormKids(d, n, d[n].kids, <<>>)

\* the same for the children ks of p, run being the text merged so far
NormKids(d, p, ks, run) ==
    LET flush == IF run = <<>> THEN <<>>
                 ELSE <<[parent |-> p, text |-> run]>>
    IN  IF ks = <<>> THEN flush
        ELSE IF IsText(d, Head(ks))
        THEN NormKids(d, p, Tail(ks), run \o d[Head(ks)].text)
        ELSE flush \o NormLeaves(d, Head(ks)) \o NormKids(d, p, Tail(ks), <<>>)

\* C6: highlightMatches followed by removeHighlights leaves text leaves that
\* are, after normalization, identical leaf by leaf (same parent, same order,
\* same text) to those of the normalized tree before the pass.
C6_RoundTrip ==
    op = "removeHighlights" => NormLeaves(dom, Body) = NormLeaves(dom0, Body)

\* the same round trip on pages that hold no element of class "highlight"
\* of their own
C6_RoundTripWithoutPageHighlight ==
    (op = "removeHighlights" /\ querySelectorAll(dom0, "highlight") = <<>>)
        => NormLeaves(dom, Body) = NormLeaves(dom0, Body)

(***************************************************************************)
(* Controller of highlightNodeV3.ts: highlightNode (lines 98-137),         *)
(* isInSelection (lines 156-185), getSelectedText (lines 194-200).         *)
(***************************************************************************)
\* lines 194-200: selection.toString().trim().toLowerCase()
getSelectedText(d, s) ==
    IF s = NoSel THEN <<>> ELSE toLowerCase(trim(RangeText(d, s)))

\* a defect in findGlobalOffset: a container that is no segment's leaf is
\* taken to start the merged text
findGlobalOffsetUnchecked(ts, node, offset) ==
    LET found == {i \in 1..Len(ts) : ts[i].node = node}
    IN  IF found = {} THEN offset ELSE ts[Min(found)].start + offset

\* lines 168-171
findGlobalOffset(ts, node, offset) ==
    LET found == {i \in 1..Len(ts) : ts[i].node = node}
    IN  IF found = {} THEN -1 ELSE ts[Min(found)].start + offset

\* a defect in the overlap test: a match touching the selection counts
overlapsTouching(match, selStart, selEnd) ==
    \/ (match.start >= selStart /\ match.end <= selEnd)
    \/ (match.start <= selEnd /\ match.end >= selStart)

\* lines 181-184
overlaps(match, selStart, selEnd) ==
    \/ (match.start >= selStart /\ match.end <= selEnd)
    \/ (match.start < selEnd /\ match.end > selStart)

\* lines 156-185
isInSelection(match, ts, s) ==
    LET selStart == findGlobalOffset(ts, s.sc, s.so)
        selEnd == findGlobalOffset(ts, s.ec, s.eo)
    IN  IF s = NoSel THEN FALSE
        ELSE IF selStart = -1 \/ selEnd = -1 THEN FALSE
        ELSE overlaps(match, selStart, selEnd)

\* line 132: highlightMatches(texts, filteredMatches), and what the call
\* leaves behind
applyFiltered(d, g, text, ms, fs) ==
    [d |-> highlightMatches(d, g.texts, fs).d,
     ok |-> highlightMatches(d, g.texts, fs).ok,
     text |-> text, last |-> text, texts |-> g.texts,
     mergedText |-> g.mergedText, matches |-> ms, filteredMatches |-> fs]

\* lines 121-123: matches.filter((m) => !isInSelection(m, texts, selection))
filterMatches(ms, ts, s) ==
    SelectSeq(ms, LAMBDA m : ~isInSelection(m, ts, s))

\* what a call leaves behind when it does not reach line 118
skipPass(d, text, last) ==
    [d |-> d, ok |-> TRUE, text |-> text, last |-> last, texts |-> <<>>,
     mergedText |-> <<>>, matches |-> <<>>, filteredMatches |-> <<>>]

\* lines 102-136, text being the selected text and g what getTextNodes
\* returns
highlightText(d, s, last, text, g) ==
    IF text # <<>> /\ text # last
    THEN IF Len(g.texts) > 0
         THEN applyFiltered(d, g, text, findMatches(g.mergedText, text),
                  filterMatches(findMatches(g.mergedText, text), g.texts, s))
         ELSE skipPass(d, text, text)
    ELSE skipPass(d, text, last)

\* lines 101-136: highlightNode after its call of removeHighlights
highlightSelected(d, s, last) ==
    highlightText(d, s, last, getSelectedText(d, s), getTextNodes(d, Body))

\* lines 99-137: the document, the locals and lastSelectedText after the
\* call, the selection being s and lastSelectedText being last
highlightNode(d, s, last) ==
    highlightSelected(removeHighlights(d), s, last)

(***************************************************************************)
(* SpecHighlightNode: the user selects text and highlightNode (or          *)
(* removeHighlights) is called, on every page of at most MaxPageKids       *)
(* items.                                                                  *)
(***************************************************************************)
PageItems ==
    {Leaf(<<"a", "b">>),
     Para(<<"A", "b">>),
     Item("button", "", FALSE, FALSE, <<"a", "b">>)}

\* what the user can select: nothing, or a run of characters of the page
\* that starts and ends outside the elements removeHighlights replaces
UserSelections(d) ==
    LET cm == CharMap(d)
        free == {i \in 1..Len(cm) : ~InsideClass(d, cm[i].node, "highlight")}
    IN  {NoSel} \cup
        {RangeOfChars(cm, x[1], x[2]) :
             x \in {y \in free \X free : y[1] <= y[2]}}

InitHighlightNode ==
    /\ \E items \in SeqsUpTo(PageItems, MaxPageKids) : dom = BuildTree(items)
    /\ dom0 = dom
    /\ texts = <<>>
    /\ mergedText = <<>>
    /\ selectedText = <<>>
    /\ matches = <<>>
    /\ filteredMatches = <<>>
    /\ ControllersIdle
    /\ op = "init"

HighlightNodeCall ==
    /\ Len(dom) < MaxNodes
    /\ \E s \in UserSelections(dom) :
           \E r \in {highlightNode(dom, s, lastSelectedText)} :
               /\ sel' = s
               /\ dom' = r.d
               /\ thrown' = ~r.ok
               /\ selectedText' = r.text
               /\ lastSelectedText' = r.last
               /\ texts' = r.texts
               /\ mergedText' = r.mergedText
               /\ matches' = r.matches
               /\ filteredMatches' = r.filteredMatches
    /\ dom0' = dom
    /\ op' = "highlightNode"
    /\ UNCHANGED <<currentHighlight, listening, observing, pending,
                   controller, pipelineRan>>

NextHighlightNode == HighlightNodeCall \/ RemoveHighlightsCall

SpecHighlightNode == InitHighlightNode /\ [][NextHighlightNode]_vars


(***************************************************************************)
(* Claims about highlightNode (SpecHighlightNode).                         *)
(***************************************************************************)
\* whether the range m is one of the ranges ms
InRanges(m, ms) == \E k \in 1..Len(ms) : ms[k] = m

\* the texts the markers of d wrap, in document order
MarkerTexts(d) ==
    [i \in 1..Len(Markers(d)) |-> textContent(d, Markers(d)[i])]

\* the state after a call of highlightNode that reached highlightMatches
\* with both ends of the selection in collected segments
SelectionMapped ==
    /\ op = "highlightNode"
    /\ matches # <<>>
    /\ sel # NoSel
    /\ \E i \in 1..Len(texts) : texts[i].node = sel.sc
    /\ \E i \in 1..Len(texts) : texts[i].node = sel.ec

\* the logical position of the start of the selection
SelStart ==
    texts[CHOOSE i \in 1..Len(texts) : texts[i].node = sel.sc].start + sel.so

\* the logical position of the end of the selection
SelEnd ==
    texts[CHOOSE i \in 1..Len(texts) : texts[i].node = sel.ec].start + sel.eo

\* C7: when both ends of the selection map to collected segments, giving
\* [selStart, selEnd], a match is left out of the ranges passed to
\* highlightMatches if and only if m.start < selEnd and m.end > selStart; a
\* match inside the selection is never passed on, a match that only touches
\* the selection is.
C7_SelectionExclusion ==
    SelectionMapped =>
        /\ \A k \in 1..Len(filteredMatches) :
              InRanges(filteredMatches[k], matches)
        /\ \A k \in 1..Len(matches) :
              ~InRanges(matches[k], filteredMatches)
                  <=> (matches[k].start < SelEnd /\ matches[k].end > SelStart)

\* C7 witness: one match inside the selection was left out and one match
\* starting where the selection ends was passed on
C7_Witness ==
    /\ SelectionMapped
    /\ \E k \in 1..Len(matches) :
          /\ matches[k].start >= SelStart
          /\ matches[k].end <= SelEnd
          /\ ~InRanges(matches[k], filteredMatches)
    /\ \E k \in 1..Len(matches) :
          /\ matches[k].start = SelEnd
          /\ InRanges(matches[k], filteredMatches)

\* C9: a second call of highlightNode right after the first, with the same
\* non-empty selection text, changes nothing: the markers the first call
\* left are still there and wrap the same text.
C9_SecondCallKeepsMarkers ==
    [][(/\ op = "highlightNode"
        /\ op' = "highlightNode"
        /\ selectedText # <<>>
        /\ selectedText' = selectedText)
            => MarkerTexts(dom') = MarkerTexts(dom)]_vars


(***************************************************************************)
(* Controllers: class HighlightFeature (lines 349-491, with                *)
(* createSpanElement lines 502-514 and getSelectedText lines 524-530) and  *)
(* initHighlight (lines 532-704).                                          *)
(***************************************************************************)
\* JavaScript's null for currentHighlight.text (line 536): a value that is
\* no string
null == <<"null">>

RECURSIVE normalize(_, _)
RECURSIVE normalizeKids(_, _, _, _)
\* Node.normalize() on n: in the subtree of n empty text nodes are removed
\* and adjacent text nodes are merged into the first of them
normalize(d, n) == normalizeKids(d, n, d[n].kids, 0)

\* the same for the children ks of p still to visit, keep being the text
\* node the next text node merges into (0: none)
normalizeKids(d, p, ks, keep) ==
    IF ks = <<>> THEN d
    ELSE LET k == Head(ks)
         IN  IF ~IsText(d, k)
             THEN normalizeKids(normalize(d, k), p, Tail(ks), 0)
             ELSE IF d[k].text = <<>>
             THEN normalizeKids(Detach(d, k), p, Tail(ks), keep)
             ELSE IF keep = 0
             THEN normalizeKids(d, p, Tail(ks), k)
             ELSE normalizeKids(
                      Detach([d EXCEPT ![keep].text = @ \o d[k].text], k),
                      p, Tail(ks), keep)

\* lines 502-514 (and 659-670): a span of class "bread-highlight" whose
\* textContent is t: the element NewNode(d) and its text child
Feature_createSpanElement(d, t) ==
    Append(Append(d, [Element("span", "bread-highlight", FALSE,
                              <<Len(d) + 2>>, 0) EXCEPT !.made = TRUE]),
           Text(t, Len(d) + 1))

\* lines 379-390: the body of the forEach for one span
unwrapSpan(d, span) ==
    LET parent == d[span].parent
        text == NewNode(d)
    IN  IF parent = 0 THEN d
        ELSE normalize(
                 replaceChild(createTextNode(d, textContent(d, span)),
                              parent, text, span),
                 parent)

RECURSIVE removeExistingHighlights(_, _)
\* lines 376-394: the document after currentHighlight.spans.forEach on spans
removeExistingHighlights(d, spans) ==
    IF spans = <<>> THEN d
    ELSE removeExistingHighlights(unwrapSpan(d, Head(spans)), Tail(spans))

\* lines 681-694: the same function inside initHighlight
Init_removeExistingHighlights(d, spans) == removeExistingHighlights(d, spans)

RECURSIVE highlightTextInNode(_, _, _, _)
\* lines 423-449: the while loop on text node node; spans is
\* currentHighlight.spans.  ok = FALSE: beforeSplit.splitText(textLength)
\* threw IndexSizeError, the first split already done.
highlightTextInNode(d, node, lowerCaseText, spans) ==
    LET textLength == Len(lowerCaseText)
        startIdx == indexOf(toLowerCase(d[node].text), lowerCaseText, 0)
        beforeSplit == NewNode(d)
        d1 == splitText(d, node, startIdx)
        afterHighlight == NewNode(d1)
        d2 == splitText(d1, beforeSplit, textLength)
        span == NewNode(d2)
        d3 == Feature_createSpanElement(d2, d2[beforeSplit].text)
        d4 == IF d3[beforeSplit].parent = 0 THEN d3
              ELSE replaceChild(d3, d3[beforeSplit].parent, span, beforeSplit)
    IN  IF startIdx = -1 THEN [d |-> d, spans |-> spans, ok |-> TRUE]
        ELSE IF Len(d[node].text) < startIdx
        THEN [d |-> d, spans |-> spans, ok |-> TRUE]
        ELSE IF textLength > Len(d1[beforeSplit].text)
        THEN [d |-> d1, spans |-> spans, ok |-> FALSE]
        ELSE highlightTextInNode(d4, afterHighlight, lowerCaseText,
                                 Append(spans, span))

\* lines 644-679: the same function inside initHighlight
Init_highlightTextInNode(d, node, lowerCaseText, spans) ==
    highlightTextInNode(d, node, lowerCaseText, spans)

RECURSIVE InsideRejected(_, _)
\* n lies in an element the node filter policy rejects with its subtree
InsideRejected(d, n) ==
    LET p == d[n].parent
    IN  IF p = 0 THEN FALSE
        ELSE d[p].tag \in EXCLUDED_TAGS \/ d[p].hidden \/ InsideRejected(d, p)

\* getTextNodes of "./kit/getNodes" (line 345): the text leaves under root
\* the filter policy accepts, in document order
Kit_getTextNodes(d, root) ==
    SelectSeq(TextNodesUnder(d, root),
              LAMBDA n : ~InsideRejected(d, n)
                         /\ Len(trim(d[n].text)) >= minContentLength)

RECURSIVE Feature_forEachNode(_, _, _, _)
RECURSIVE Feature_afterNode(_, _, _)
\* lines 413-415: textNodes.forEach over the nodes still to visit; an
\* exception ends it
Feature_forEachNode(d, nodes, lowerCaseText, spans) ==
    IF nodes = <<>> THEN [d |-> d, spans |-> spans, ok |-> TRUE]
    ELSE Feature_afterNode(
             highlightTextInNode(d, Head(nodes), lowerCaseText, spans),
             Tail(nodes), lowerCaseText)

\* the forEach after the call for one node returned r
Feature_afterNode(r, nodes, lowerCaseText) ==
    IF r.ok THEN Feature_forEachNode(r.d, nodes, lowerCaseText, r.spans)
    ELSE r

\* lines 403-416, text being currentHighlight.text
highlightTextNodes(d, text, spans) ==
    Feature_forEachNode(d, Kit_getTextNodes(d, Body), toLowerCase(text),
                        spans)


\* a defect in the guard: only a lower-case letter is rejected
singleLowerCaseGuard(selected) ==
    Len(selected) = 1
        /\ selected[1] \in {"a", "b", "c", "d", "e", "f", "g", "h", "i", "j"}

\* lines 464 and 563: selectedText.length === 1 and [a-zA-Z0-9] matches it
singleCharGuard(selected) ==
    Len(selected) = 1 /\ IsAlnum(selected[1])

\* lines 524-530 and 581-586: selection.toString().trim() || "", raw being
\* selection.toString()
Feature_getSelectedText(raw) == trim(raw)

\* what a handler that changes nothing leaves behind
Untouched(d, cur, obs, pend) ==
    [d |-> d, cur |-> cur, observing |-> obs, pending |-> pend,
     ok |-> TRUE, ran |-> FALSE]

\* the controller after highlightTextNodes returned (or threw) r, the
\* tracked text already set to selected (line 483)
Feature_store(r, selected) ==
    [d |-> r.d, cur |-> [text |-> selected, spans |-> r.spans],
     observing |-> FALSE, pending |-> FALSE, ok |-> r.ok, ran |-> TRUE]

\* lines 477-487 once removeExistingHighlights has left document d
Feature_applySelected(d, selected) ==
    IF selected # <<>>
    THEN Feature_store(highlightTextNodes(d, selected, <<>>),
                       selected)
    ELSE [d |-> d, cur |-> [text |-> selected, spans |-> <<>>],
          observing |-> FALSE, pending |-> FALSE, ok |-> TRUE, ran |-> FALSE]

\* lines 457-489: HighlightFeature.switchHighlight, cur being
\* this.currentHighlight
Feature_switchHighlight(d, cur, selected) ==
    IF singleCharGuard(selected) THEN Untouched(d, cur, FALSE, FALSE)
    ELSE IF selected # cur.text
    THEN Feature_applySelected(removeExistingHighlights(d, cur.spans),
                               selected)
    ELSE Untouched(d, cur, FALSE, FALSE)

\* lines 366-370: HighlightFeature.stop
Feature_stop(d, cur) ==
    [d |-> removeExistingHighlights(d, cur.spans),
     cur |-> [cur EXCEPT !.spans = <<>>]]

\* lines 613-620: the tags whose text getTextNodes of initHighlight skips
Init_SKIPPED_TAGS ==
    {"input", "textarea", "select", "button", "script", "style"}

\* lines 602-642: getTextNodes of initHighlight
Init_getTextNodes(d) ==
    SelectSeq(TextNodesUnder(d, Body),
              LAMBDA n : d[d[n].parent].tag \notin Init_SKIPPED_TAGS)

RECURSIVE Init_forEachNode(_, _, _, _)
RECURSIVE Init_afterNode(_, _, _)
\* lines 594-596: textNodes.forEach over the nodes still to visit; an
\* exception ends it
Init_forEachNode(d, nodes, lowerCaseText, spans) ==
    IF nodes = <<>> THEN [d |-> d, spans |-> spans, ok |-> TRUE]
    ELSE Init_afterNode(
             Init_highlightTextInNode(d, Head(nodes), lowerCaseText, spans),
             Tail(nodes), lowerCaseText)

\* the forEach after the call for one node returned r
Init_afterNode(r, nodes, lowerCaseText) ==
    IF r.ok THEN Init_forEachNode(r.d, nodes, lowerCaseText, r.spans)
    ELSE r

\* lines 588-600: highlightAllOccurrences(text), spans being
\* currentHighlight.spans.  observer.disconnect() (line 591) drops the queued
\* records; observer.observe (line 599) is reached only without exception.
highlightAllOccurrences(d, text, spans) ==
    Init_forEachNode(d, Init_getTextNodes(d), toLowerCase(text), spans)

\* lines 567-570: the branch for the empty selection.  Replacing a marker
\* while the observer is connected queues a mutation record.
Init_clear(d, d1, obs, pend, selected) ==
    [d |-> d1, cur |-> [text |-> selected, spans |-> <<>>],
     observing |-> obs, pending |-> pend \/ (obs /\ d1 # d),
     ok |-> TRUE, ran |-> FALSE]

\* a defect in highlightAllOccurrences: without observer.disconnect() an
\* observer connected at the call records the pass's own changes
queuedWithoutDisconnect(wasObserving) == wasObserving

\* lines 591-599: whether records are queued when highlightAllOccurrences is
\* over, wasObserving being the observer's state at the call.  disconnect()
\* (line 591) empties the queue before the first insertion and observe()
\* (line 599) comes after the last.
queuedAfterPass(wasObserving) == FALSE

\* lines 571-578 after highlightAllOccurrences returned (or threw) r:
\* currentHighlight.text is assigned only when it returned
Init_store(r, cur, selected, obs) ==
    [d |-> r.d,
     cur |-> [text |-> IF r.ok THEN selected ELSE cur.text,
              spans |-> r.spans],
     observing |-> r.ok, pending |-> queuedAfterPass(obs), ok |-> r.ok,
     ran |-> TRUE]

\* lines 560-579: switchHighlight of initHighlight
Init_switchHighlight(d, cur, obs, pend, selected) ==
    IF singleCharGuard(selected) THEN Untouched(d, cur, obs, pend)
    ELSE IF selected = <<>>
    THEN Init_clear(d, Init_removeExistingHighlights(d, cur.spans), obs,
                    pend, selected)
    ELSE IF selected # cur.text
    THEN Init_store(
             highlightAllOccurrences(
                 Init_removeExistingHighlights(d, cur.spans), selected,
                 <<>>),
             cur, selected, obs)
    ELSE Untouched(d, cur, obs, pend)

\* a defect in the callback: the pass is run over the tracked markers
Init_observerCallbackKeepingMarkers(d, cur) ==
    IF cur.text # null /\ cur.text # <<>>
    THEN Init_store(highlightAllOccurrences(d, cur.text, cur.spans),
                    cur, cur.text, TRUE)
    ELSE Untouched(d, cur, TRUE, FALSE)

\* lines 697-703: the MutationObserver callback
Init_observerCallback(d, cur) ==
    IF cur.text # null /\ cur.text # <<>>
    THEN Init_store(
             highlightAllOccurrences(
                 Init_removeExistingHighlights(d, cur.spans), cur.text,
                 <<>>),
             cur, cur.text, TRUE)
    ELSE Untouched(d, cur, TRUE, FALSE)


(***************************************************************************)
(* SpecControllers: a page running HighlightFeature or initHighlight.  The *)
(* user selects text and releases the mouse, the page adds content, the    *)
(* MutationObserver calls back.  A handler runs to its end (or to an       *)
(* uncaught exception) in one step; the observer's callback is a microtask *)
(* and runs before the next event.  Node identities carry no meaning, so   *)
(* after each step the nodes in the page are renumbered in document order  *)
(* and the detached ones dropped.  Empty text nodes left behind by splits  *)
(* pile up without limit; the page stops taking events once it holds more  *)
(* than MaxCtlNodes nodes.                                                 *)
(***************************************************************************)
MaxCtlKids == 1
MaxPageChars == 4
MaxCtlNodes == 7
MaxUndoKids == 2     \* most items of a page in SpecUndo
MaxSeqKids == 2      \* most items of a page in SpecSequence
MaxSeqMatches == 1   \* longest match list of a call in SpecSequence
MaxSeqNodes == 9     \* SpecSequence makes no call on a larger document

\* the new index of each node of d that is in the page, 0 for the others
Renumbering(d) ==
    LET order == docOrder(d, Body)
    IN  [n \in 1..Len(d) |->
            IF \E i \in 1..Len(order) : order[i] = n
            THEN CHOOSE i \in 1..Len(order) : order[i] = n
            ELSE 0]

\* d with its nodes renumbered by the renumbering f
Renumbered(d, f) ==
    LET order == docOrder(d, Body)
    IN  [i \in 1..Len(order) |->
            [d[order[i]] EXCEPT
                !.kids = [k \in 1..Len(@) |-> f[@[k]]],
                !.parent = IF @ = 0 THEN 0 ELSE f[@]]]

\* the page d without its detached nodes
Compact(d) == Renumbered(d, Renumbering(d))

\* the markers spans, all in the page d, under the renumbering of d
CompactSpans(d, spans) ==
    [i \in 1..Len(spans) |-> Renumbering(d)[spans[i]]]

ControllerItems ==
    {Para(<<"a", "0">>),
     Para(<<"Idot", "b", "Idot">>),
     Leaf(<<" ", "Idot">>)}

\* what selection.toString() can be: empty, or a run of the page's text
SelectionStrings(d) ==
    LET t == textContent(d, Body)
    IN  {<<>>} \cup
        {Slice(t, x[1], x[2]) :
             x \in {y \in (0..Len(t)) \X (0..Len(t)) : y[1] < y[2]}}

InitControllers ==
    /\ \E items \in SeqsUpTo(ControllerItems, MaxCtlKids) :
           dom = BuildTree(items)
    /\ dom0 = dom
    /\ texts = <<>>
    /\ mergedText = <<>>
    /\ selectedText = <<>>
    /\ matches = <<>>
    /\ filteredMatches = <<>>
    /\ sel = NoSel
    /\ lastSelectedText = <<>>
    /\ pending = FALSE
    /\ observing = FALSE
    /\ thrown = FALSE
    /\ pipelineRan = FALSE
    /\ \/ /\ controller = "HighlightFeature"
          /\ currentHighlight = [text |-> <<>>, spans |-> <<>>]
          /\ listening = FALSE
       \/ /\ controller = "initHighlight"
          /\ currentHighlight = [text |-> null, spans |-> <<>>]
          /\ listening = TRUE
    /\ op = "init"

pageVars ==
    <<dom0, sel, texts, mergedText, matches, filteredMatches,
      lastSelectedText, controller>>

\* the state a handler leaves, r being what it returned
HandlerDone(r) ==
    /\ dom' = Compact(r.d)
    /\ currentHighlight' =
           [text |-> r.cur.text, spans |-> CompactSpans(r.d, r.cur.spans)]
    /\ observing' = r.observing
    /\ pending' = r.pending
    /\ thrown' = ~r.ok
    /\ pipelineRan' = r.ran

\* lines 361-364: HighlightFeature.start
FeatureStart ==
    /\ controller = "HighlightFeature"
    /\ ~listening
    /\ listening' = TRUE
    /\ thrown' = FALSE
    /\ pipelineRan' = FALSE
    /\ op' = "start"
    /\ UNCHANGED <<dom, selectedText, currentHighlight, observing, pending,
                   pageVars>>

\* lines 366-370: HighlightFeature.stop
FeatureStop ==
    /\ controller = "HighlightFeature"
    /\ listening
    /\ listening' = FALSE
    /\ \E r \in {Feature_stop(dom, currentHighlight)} :
           /\ dom' = Compact(r.d)
           /\ currentHighlight' = r.cur
    /\ thrown' = FALSE
    /\ pipelineRan' = FALSE
    /\ op' = "stop"
    /\ UNCHANGED <<selectedText, observing, pending, pageVars>>

\* mouseup on a page running HighlightFeature (line 363)
FeatureMouseup ==
    /\ controller = "HighlightFeature"
    /\ listening
    /\ Len(dom) <= MaxCtlNodes
    /\ \E raw \in SelectionStrings(dom) :
           /\ selectedText' = Feature_getSelectedText(raw)
           /\ \E r \in {Feature_switchHighlight(
                            dom, currentHighlight,
                            Feature_getSelectedText(raw))} :
                  HandlerDone(r)
    /\ op' = "switchHighlight"
    /\ UNCHANGED <<listening, pageVars>>

\* mouseup on a page running initHighlight (lines 555-558)
InitMouseup ==
    /\ controller = "initHighlight"
    /\ ~pending
    /\ Len(dom) <= MaxCtlNodes
    /\ \E raw \in SelectionStrings(dom) :
           /\ selectedText' = Feature_getSelectedText(raw)
           /\ \E r \in {Init_switchHighlight(
                            dom, currentHighlight, observing, pending,
                            Feature_getSelectedText(raw))} :
                  HandlerDone(r)
    /\ op' = "switchHighlight"
    /\ UNCHANGED <<listening, pageVars>>

\* the page appends a text leaf to document.body; a connected observer
\* queues a record
PageMutation ==
    /\ controller = "initHighlight"
    /\ ~pending
    /\ Len(textContent(dom, Body)) < MaxPageChars
    /\ Len(dom) <= MaxCtlNodes
    /\ dom' = AddItem(dom, Leaf(<<"a", "0">>))
    /\ pending' = observing
    /\ thrown' = FALSE
    /\ pipelineRan' = FALSE
    /\ op' = "mutation"
    /\ UNCHANGED <<selectedText, currentHighlight, listening, observing,
                   pageVars>>

\* lines 697-703: the observer is called back with the queued records
ObserverCallback ==
    /\ controller = "initHighlight"
    /\ pending
    /\ \E r \in {Init_observerCallback(dom, currentHighlight)} :
           HandlerDone(r)
    /\ op' = "observer"
    /\ UNCHANGED <<selectedText, listening, pageVars>>

NextControllers ==
    \/ FeatureStart
    \/ FeatureStop
    \/ FeatureMouseup
    \/ InitMouseup
    \/ PageMutation
    \/ ObserverCallback

SpecControllers == InitControllers /\ [][NextControllers]_vars


(***************************************************************************)
(* Claims about the controllers (SpecControllers).                         *)
(***************************************************************************)
\* the step is a mouseup: switchHighlight ran on the selection text
\* selectedText'
Triggered == op' = "switchHighlight"

\* the step left the page, the tracked text and the tracked markers as they
\* were and did not run the pipeline
NothingDone ==
    /\ dom' = dom
    /\ currentHighlight' = currentHighlight
    /\ ~pipelineRan'

\* C8: in HighlightFeature.switchHighlight and in switchHighlight of
\* initHighlight, a trigger whose selection text equals the tracked text
\* changes nothing: no marker is removed or created, the tracked markers and
\* the tracked text stay, the pipeline is not run.
C8_SameTextNoOp ==
    [][(Triggered /\ selectedText' = currentHighlight.text)
           => NothingDone]_vars

\* C10: a trigger whose trimmed selection text is one character of
\* [a-zA-Z0-9] is rejected up front, whatever the state of the controller:
\* the pipeline is not run, no marker is created or removed, the tracked
\* text and the tracked markers stay.
C10_SingleCharRejected ==
    [][(Triggered /\ Len(selectedText') = 1 /\ IsAlnum(selectedText'[1]))
           => NothingDone]_vars

\* C10 witness: initHighlight, with markers in the page, was triggered with
\* the selection "0" and kept its markers
C10_Witness ==
    /\ controller = "initHighlight"
    /\ op = "switchHighlight"
    /\ selectedText = <<"0">>
    /\ currentHighlight.spans # <<>>
    /\ \A i \in 1..Len(currentHighlight.spans) :
          dom[currentHighlight.spans[i]].parent # 0
    /\ ~pipelineRan


\* the step is a mouseup whose selection text passes the single-character
\* guard and is not empty
NewTextTriggered ==
    /\ Triggered
    /\ selectedText' # <<>>
    /\ ~(Len(selectedText') = 1 /\ IsAlnum(selectedText'[1]))

\* C11: HighlightFeature.stop() leaves the controller Idle: no marker in the
\* tree, no tracked marker, the tracked text empty; so after a later start()
\* a selection of the text highlighted before stop() is a new highlight and
\* runs the pipeline again.
C11_StopResetsController ==
    [][/\ op' = "stop" =>
              /\ Markers(dom') = <<>>
              /\ currentHighlight'.spans = <<>>
              /\ currentHighlight'.text = <<>>
       /\ (controller = "HighlightFeature" /\ op = "start"
               /\ NewTextTriggered)
              => pipelineRan']_vars


\* the step is a call of highlightNode that collected the segments of the
\* page, searched them for selectedText' and wrapped what it passed on
PipelineRun ==
    /\ op' = "highlightNode"
    /\ lastSelectedText' = selectedText'
    /\ texts' = getTextNodes(removeHighlights(dom), Body).texts
    /\ matches' = findMatches(mergedText', selectedText')
    /\ filteredMatches' # <<>> => Markers(dom') # <<>>

\* C12: a highlightNode call with an empty selection leaves the controller
\* Idle (no marker, no tracked text), so the next highlightNode call with a
\* non-empty selection text, the text highlighted before included, runs the
\* pipeline and wraps the occurrences it does not exclude.
C12_EmptySelectionResets ==
    [][/\ (op' = "highlightNode" /\ selectedText' = <<>>)
              => (Markers(dom') = <<>> /\ lastSelectedText' = <<>>)
       /\ (op = "highlightNode" /\ selectedText = <<>>
               /\ op' = "highlightNode" /\ selectedText' # <<>>)
              => PipelineRun]_vars


(***************************************************************************)
(* Further claims about the collector (SpecCollect).                       *)
(***************************************************************************)
RECURSIVE InsideExcludedTag(_, _)
\* n lies, at some depth, in an element whose tag is one of EXCLUDED_TAGS
InsideExcludedTag(d, n) ==
    LET p == d[n].parent
    IN  IF p = 0 THEN FALSE
        ELSE d[p].tag \in EXCLUDED_TAGS \/ InsideExcludedTag(d, p)

\* C13: no text leaf lying at any depth inside an element of EXCLUDED_TAGS
\* is among the segments or contributes to mergedText; a root holding only
\* such elements gives no segment, the empty logical string and no match.
C13_RejectSubtree ==
    op = "getTextNodes" =>
        /\ \A i \in 1..Len(texts) : ~InsideExcludedTag(dom, texts[i].node)
        /\ (\A n \in 1..Len(dom) : IsText(dom, n) => InsideExcludedTag(dom, n))
               => /\ texts = <<>>
                  /\ mergedText = <<>>
                  /\ findMatches(mergedText, <<"a", "b">>) = <<>>


(***************************************************************************)
(* SpecControllersFair: SpecControllers with the observer's callback       *)
(* scheduled: a microtask with queued records is run.  This is weak        *)
(* fairness of ObserverCallback, []<>~ENABLED <<A>>_vars \/ []<><<A>>_vars, *)
(* with ENABLED written as the action's guard (the rest of the action is   *)
(* total).                                                                 *)
(***************************************************************************)
ObserverCallbackEnabled == controller = "initHighlight" /\ pending

SpecControllersFair ==
    /\ SpecControllers
    /\ \/ []<>~ObserverCallbackEnabled
       \/ []<><<ObserverCallback>>_vars

IsSegmentLeaf(ts, n) == \E i \in 1..Len(ts) : ts[i].node = n

\* the selection has no range, or one of its containers is no segment's leaf
UnmappableSelection ==
    \/ sel = NoSel
    \/ ~IsSegmentLeaf(texts, sel.sc)
    \/ ~IsSegmentLeaf(texts, sel.ec)

\* C15: after highlightNode, when the selection has no range or its start
\* or end container is the leaf of no collected segment, isInSelection is
\* false for every match, the matches passed to highlightMatches are all
\* those findMatches found, and the call raised no error.
C15_UnmappableSelection ==
    (op = "highlightNode" /\ UnmappableSelection) =>
        /\ \A i \in 1..Len(matches) : ~isInSelection(matches[i], texts, sel)
        /\ filteredMatches = matches
        /\ ~thrown

\* C15 witness: the text selected lies in a leaf that is not collected, it
\* occurs in the collected text, and every occurrence was passed on
C15_Witness ==
    /\ op = "highlightNode"
    /\ sel # NoSel
    /\ ~IsSegmentLeaf(texts, sel.sc)
    /\ ~IsSegmentLeaf(texts, sel.ec)
    /\ matches # <<>>
    /\ filteredMatches = matches
    /\ Len(Markers(dom)) >= Len(matches)


\* the sibling following node n in d, 0 when there is none
NextSibling(d, n) ==
    LET p == d[n].parent
        i == IndexOfChild(d[p].kids, n)
    IN  IF p = 0 THEN 0
        ELSE IF i < Len(d[p].kids) THEN d[p].kids[i + 1] ELSE 0

\* C16: after highlightMatches no marker it created is followed by a
\* sibling that is a text leaf of length zero.
C16_NoEmptyRemainder ==
    op = "highlightMatches" =>
        \A i \in 1..Len(Markers(dom)) :
            LET next == NextSibling(dom, Markers(dom)[i])
            IN  next # 0 => ~(IsText(dom, next) /\ dom[next].text = <<>>)


\* the matches of ms that lie inside segment entry
ContainedMatches(entry, ms) ==
    SelectSeq(ms, LAMBDA m : m.start >= entry.start /\ m.end <= entry.end)

\* the markers of d that stand where the leaf of segment entry stood in d0
\* and wrap the slice of its text that match m names
SliceMarkers(d, d0, entry, m) ==
    {k \in 1..Len(d) :
        /\ InRanges(k, Markers(d))
        /\ d[k].parent = d0[entry.node].parent
        /\ textContent(d, k) = Slice(d0[entry.node].text,
                                     m.start - entry.start,
                                     m.end - entry.start)}

\* the markers of the matches inside segment entry wrap the right slices
\* and were created from the rightmost match to the leftmost
SplicedRightToLeft(entry) ==
    LET cm == ContainedMatches(entry, filteredMatches)
        marker(j) == CHOOSE k \in SliceMarkers(dom, dom0, entry, cm[j]) : TRUE
    IN  Len(cm) >= 2 =>
            /\ \A j \in 1..Len(cm) :
                   Cardinality(SliceMarkers(dom, dom0, entry, cm[j])) = 1
            /\ \A j, l \in 1..Len(cm) : j < l => marker(l) < marker(j)

\* C17: after highlightMatches, for every segment that contains two or more
\* matches, each of these matches has its marker, wrapping the slice
\* [match.start - segment.start, match.end - segment.start) of the leaf's
\* text before the pass, and the markers were created right to left.
C17_RightToLeftSlices ==
    op = "highlightMatches" =>
        \A i \in 1..Len(texts) : SplicedRightToLeft(texts[i])

\* no match of ms spans a segment boundary
NoSpanningMatch(ts, ms) ==
    \A k \in 1..Len(ms) :
        \E i \in 1..Len(ts) : ms[k].start >= ts[i].start /\ ms[k].end <= ts[i].end

\* the statement of C17 for passes in which no match spans a boundary
C17_SlicesWithoutSpanningMatch ==
    (op = "highlightMatches" /\ NoSpanningMatch(texts, filteredMatches)) =>
        \A i \in 1..Len(texts) : SplicedRightToLeft(texts[i])

\* two matches inside one segment, both spliced
C17_SlicesWitness ==
    /\ op = "highlightMatches"
    /\ NoSpanningMatch(texts, filteredMatches)
    /\ \E i \in 1..Len(texts) :
           Len(ContainedMatches(texts[i], filteredMatches)) >= 2


\* the text leaves of d the pass of initHighlight visits, outside markers,
\* in which lowerCaseText still occurs
Unhighlighted(d, lowerCaseText) ==
    {n \in 1..Len(d) :
        /\ InRanges(n, Init_getTextNodes(d))
        /\ ~d[d[n].parent].made
        /\ indexOf(toLowerCase(d[n].text), lowerCaseText, 0) # -1}

\* the callback ran one pass for the tracked text: the markers in the page
\* are those the tracked list holds, none inside another (the markers of
\* the pass before are gone), no occurrence is left outside a marker, and
\* the page's text is as it was
RehighlightedPass ==
    /\ pipelineRan'
    /\ ~thrown'
    /\ currentHighlight'.text = currentHighlight.text
    /\ Markers(dom') = currentHighlight'.spans
    /\ \A i \in 1..Len(Markers(dom')) :
           ~InsideClass(dom', Markers(dom')[i], "bread-highlight")
    /\ Unhighlighted(dom', toLowerCase(currentHighlight.text)) = {}
    /\ textContent(dom', Body) = textContent(dom, Body)

UndoItems ==
    {Leaf(<<"a", "b">>),
     Para(<<"b", "a", "b">>),
     Leaf(<<" ", "Idot">>)}

\* the texts switchHighlight stores in currentHighlight.text (lines 464-487)
\* for the selections of page d: trimmed, not empty, no single [a-zA-Z0-9]
TrackedTexts(d) ==
    {t \in {Feature_getSelectedText(raw) : raw \in SelectionStrings(d)} :
        t # <<>> /\ ~singleCharGuard(t)}

InitUndo ==
    /\ \E items \in SeqsUpTo(UndoItems, MaxUndoKids) :
           /\ dom = BuildTree(items)
           /\ \E t \in TrackedTexts(dom) :
                  currentHighlight = [text |-> t, spans |-> <<>>]
    /\ dom0 = dom
    /\ texts = <<>>
    /\ mergedText = <<>>
    /\ selectedText = <<>>
    /\ matches = <<>>
    /\ filteredMatches = <<>>
    /\ sel = NoSel
    /\ lastSelectedText = <<>>
    /\ listening = FALSE
    /\ observing = FALSE
    /\ pending = FALSE
    /\ thrown = FALSE
    /\ pipelineRan = FALSE
    /\ controller = "HighlightFeature"
    /\ op = "init"

undoVars ==
    <<texts, mergedText, selectedText, matches, filteredMatches, sel,
      lastSelectedText, listening, observing, pending, pipelineRan,
      controller>>

\* lines 403-416: highlightTextNodes()
HighlightTextNodesCall ==
    /\ op = "init"
    /\ \E r \in {highlightTextNodes(dom, currentHighlight.text,
                                    currentHighlight.spans)} :
           /\ dom' = r.d
           /\ currentHighlight' = [currentHighlight EXCEPT !.spans = r.spans]
           /\ thrown' = ~r.ok
    /\ dom0' = dom
    /\ op' = "highlightTextNodes"
    /\ UNCHANGED undoVars

\* lines 376-394: removeExistingHighlights()
RemoveExistingHighlightsCall ==
    /\ op = "highlightTextNodes"
    /\ dom' = removeExistingHighlights(dom, currentHighlight.spans)
    /\ currentHighlight' = [currentHighlight EXCEPT !.spans = <<>>]
    /\ op' = "removeExistingHighlights"
    /\ UNCHANGED <<dom0, thrown, undoVars>>

NextUndo == HighlightTextNodesCall \/ RemoveExistingHighlightsCall

SpecUndo == InitUndo /\ [][NextUndo]_vars

\* the text leaves of d in document order: the parent and the text of each
LeafStructure(d) ==
    LET ns == TextNodesUnder(d, Body)
    IN  [i \in 1..Len(ns) |-> [parent |-> d[ns[i]].parent, text |-> d[ns[i]].text]]

\* C19: highlightTextNodes followed by removeExistingHighlights leaves the
\* page with the sequence of text leaves it had before highlightTextNodes:
\* the same parents, the same order, the same text in each leaf.
C19_UndoRestoresLeaves ==
    op = "removeExistingHighlights" => LeafStructure(dom) = LeafStructure(dom0)

\* the statement of C19 for the calls of highlightTextNodes that returned
C19_UndoAfterCompletedPass ==
    (op = "removeExistingHighlights" /\ ~thrown)
        => LeafStructure(dom) = LeafStructure(dom0)


(***************************************************************************)
(* SpecSequence: getTextNodes once, then highlightMatches and              *)
(* removeHighlights called in any order and any number of times with the   *)
(* segments collected at first, on pages of at most MaxSeqKids items.  A   *)
(* call of highlightMatches that ends by an exception (a split beyond a    *)
(* leaf shortened by an earlier call) leaves what it had done.             *)
(***************************************************************************)
InitSequence ==
    /\ \E shs \in SeqsUpTo(SpliceShapes, MaxSeqKids) :
           dom = BuildTree(ShapeItems(shs, 1))
    /\ dom0 = dom
    /\ texts = <<>>
    /\ mergedText = <<>>
    /\ selectedText = <<>>
    /\ matches = <<>>
    /\ filteredMatches = <<>>
    /\ ControllersIdle
    /\ op = "init"

\* lines 235-319: highlightMatches(texts, ms), at any time after getTextNodes
HighlightMatchesAnyTime ==
    /\ op # "init"
    /\ Len(dom) <= MaxSeqNodes
    /\ \E ms \in MatchListsFrom(0, Len(mergedText), MaxSeqMatches) :
           \E r \in {highlightMatches(dom, texts, ms)} :
               /\ filteredMatches' = ms
               /\ dom' = r.d
               /\ thrown' = ~r.ok
    /\ op' = "highlightMatches"
    /\ UNCHANGED <<dom0, texts, mergedText, selectedText, matches,
                   controllerVars>>

\* lines 139-146: removeHighlights(), at any time after getTextNodes
RemoveHighlightsAnyTime ==
    /\ op # "init"
    /\ Len(dom) <= MaxSeqNodes
    /\ dom' = removeHighlights(dom)
    /\ thrown' = FALSE
    /\ op' = "removeHighlights"
    /\ UNCHANGED <<dom0, texts, mergedText, selectedText, matches,
                   filteredMatches, controllerVars>>

NextSequence ==
    GetTextNodesCall \/ HighlightMatchesAnyTime \/ RemoveHighlightsAnyTime

SpecSequence == InitSequence /\ [][NextSequence]_vars

\* C20: no call of highlightMatches or removeHighlights changes the
\* concatenation, in document order, of the text under document.body; so
\* after any sequence of calls it is what it was before the sequence.
C20_TextPreserved ==
    /\ [][textContent(dom', Body) = textContent(dom, Body)]_vars
    /\ [](textContent(dom, Body) = textContent(dom0, Body))

\* C20 witness: markers were spliced in, unwrapped, and spliced in again
C20_Witness ==
    /\ op = "highlightMatches"
    /\ ~thrown
    /\ Markers(dom) # <<>>
    /\ \E n \in 1..Len(dom) :
           dom[n].made /\ dom[n].parent = 0 /\ dom[n].kids # <<>>


\* marker m of the page wraps the tracked text, case ignored, and is in the
\* tracked list
TrackedMarker(m) ==
    /\ toLowerCase(textContent(dom, m)) = toLowerCase(currentHighlight.text)
    /\ InRanges(m, currentHighlight.spans)

\* C21: on a page running HighlightFeature, after every handler that ran to
\* its end, each marker in the tree wraps text equal to the tracked text,
\* case ignored, and is in currentHighlight.spans; no marker is in the tree
\* while the tracked text is empty.
C21_NoStaleMarker ==
    (controller = "HighlightFeature" /\ ~thrown) =>
        /\ \A i \in 1..Len(Markers(dom)) : TrackedMarker(Markers(dom)[i])
        /\ currentHighlight.text = <<>> => Markers(dom) = <<>>


\* the statement of C21 without what the markers wrap: every marker in the
\* tree is tracked, and none is there while the tracked text is empty
C21_MarkersAreTracked ==
    (controller = "HighlightFeature" /\ ~thrown) =>
        /\ \A i \in 1..Len(Markers(dom)) :
               InRanges(Markers(dom)[i], currentHighlight.spans)
        /\ currentHighlight.text = <<>> => Markers(dom) = <<>>


\* the elements in the page d that highlightMatches did not create
PageElements(d) ==
    {n \in 1..Len(d) :
        /\ InRanges(n, docOrder(d, Body))
        /\ d[n].kind = "elem"
        /\ ~d[n].made}

\* the children of n that are elements highlightMatches did not create
ElementKids(d, n) ==
    SelectSeq(d[n].kids, LAMBDA k : d[k].kind = "elem" /\ ~d[k].made)

\* C22: removeHighlights leaves every element of the page that
\* highlightMatches did not create where it was, an element of the page's
\* own of class "highlight" included: still in the page, under the same
\* parent, with the same tag and class, the same element children and the
\* same text.
C22_ExactUndoSet ==
    [][op' = "removeHighlights" =>
          \A n \in PageElements(dom) :
              /\ n \in PageElements(dom')
              /\ dom'[n].parent = dom[n].parent
              /\ dom'[n].tag = dom[n].tag
              /\ dom'[n].cls = dom[n].cls
              /\ ElementKids(dom', n) = ElementKids(dom, n)
              /\ textContent(dom', n) = textContent(dom, n)]_vars

\* the statement of C22 for the elements that do not carry the class
\* "highlight"
C22_OtherElementsKept ==
    [][op' = "removeHighlights" =>
          \A n \in PageElements(dom) :
              (querySelectorAll(dom, "highlight") = Markers(dom)) =>
                  /\ n \in PageElements(dom')
                  /\ dom'[n].parent = dom[n].parent
                  /\ ElementKids(dom', n) = ElementKids(dom, n)
                  /\ textContent(dom', n) = textContent(dom, n)]_vars


====
